---- MODULE Spec2Model ----
(***************************************************************************)
(* A model of hatchet/utils/cluster_bins.py: read_bb, main,                *)
(* hmm_model_select, DiagGHMM, make_transmat, reindex and form_seg.        *)
(*                                                                         *)
(* Five specifications share the variables:                                *)
(*   Spec        main() from read_bb to form_seg                           *)
(*   SpecSelect  hmm_model_select() called on an arbitrary list of tracks  *)
(*   SpecReindex reindex() called on an arbitrary list of labels           *)
(*   SpecSeg     form_seg() called on an arbitrary clustered bin table     *)
(*   SpecDiag    the EM loop of DiagGHMM (diag regime)                     *)
(*                                                                         *)
(* hmmlearn, scikit-learn and pandas are not part of the repository: what  *)
(* model.fit/model.decode and silhouette_score return is an input drawn    *)
(* from a bounded set.                                                     *)
(***************************************************************************)
EXTENDS Integers, Sequences, FiniteSets, TLC

VARIABLES
    pc,             \* the statement the running function is at
    err,            \* the exception that ended the run, or "none"
    calls,          \* <<name, K>>: the functions and library routines invoked so far
    args,           \* main: the parsed arguments
    bb,             \* main: the bin table (a sequence of rows); form_seg: bbc
    tracks,         \* read_bb / hmm_model_select: the list of arrays
    sample_labels,  \* read_bb
    chr_labels,     \* read_bb
    minK,           \* main / hmm_model_select
    maxK,           \* main / hmm_model_select
    tmat,           \* hmm_model_select
    decode_alg,     \* hmm_model_select
    X,              \* hmm_model_select: the rows of the observation matrix
    lengths,        \* hmm_model_select
    K,              \* hmm_model_select: the loop variable
    best_K,
    best_score,
    best_model,
    best_labels,
    rs,             \* hmm_model_select: per-K results
    labels,         \* reindex: its argument
    segments,       \* form_seg
    n_components,   \* DiagGHMM
    transmat_,      \* DiagGHMM
    stats,          \* DiagGHMM: the sufficient statistics of one EM iteration
    n_done          \* DiagGHMM: EM iterations completed

vars == <<pc, err, calls, args, bb, tracks, sample_labels, chr_labels, minK, maxK,
          tmat, decode_alg, X, lengths, K, best_K, best_score, best_model,
          best_labels, rs, labels, segments, n_components, transmat_, stats, n_done>>

mainVars == <<args, bb, sample_labels, chr_labels>>
selectVars == <<tracks, minK, maxK, tmat, decode_alg, X, lengths, K, best_K,
                best_score, best_model, best_labels, rs>>
diagVars == <<n_components, transmat_, stats, n_done>>

\* Python's None where a list of labels is expected
NoLabels == <<-1>>
\* Python's None where a model is expected
NoModel == [n_components |-> 0, cls |-> "None", params |-> ""]
\* no statistics accumulated yet in this EM iteration
NoStats == [has |-> FALSE, denoms |-> <<>>]

(***************************************************************************)
(* Bounds of the model.                                                    *)
(***************************************************************************)
MaxK == 3           \* largest number of states / clusters tried
MaxBins == 3        \* bins per chromosome in the bin table
MaxScore == 1       \* silhouette scores are s / MaxScore, s in -MaxScore..MaxScore
MaxCols == 1        \* columns of a track handed to hmm_model_select directly
MaxLen == 4         \* length of a label list handed to reindex directly
MaxLabel == 2       \* raw labels handed to reindex are 0..MaxLabel
MaxRows == 2        \* rows of a clustered bin table handed to form_seg directly
MaxIter == 2        \* EM iterations of one fit
MaxMass == 1        \* posterior mass of one state summed over a sequence
TransGrid == 1      \* base-class transition estimates are multiples of 1/TransGrid

(***************************************************************************)
(* Exact arithmetic.  A rational is <<n, d>> in lowest terms with d > 0.   *)
(* A number is <<a, b>>, two rationals, standing for a + b * tol where     *)
(* tol = 1e-10 is the tolerance of form_transition_matrix: every rational  *)
(* of the model has a denominator far below 1/tol, so numbers are ordered  *)
(* by a first and by b second.                                             *)
(***************************************************************************)
Abs(n) == IF n < 0 THEN -n ELSE n

RECURSIVE GCD(_, _)
GCD(a, b) == IF b = 0 THEN a ELSE GCD(b, a % b)

Rat(n, d) ==
    LET s == IF d < 0 THEN -1 ELSE 1
        g == GCD(Abs(n), Abs(d))
    IN  <<(s * n) \div g, (s * d) \div g>>

RAdd(p, q) == Rat(p[1] * q[2] + q[1] * p[2], p[2] * q[2])
RNeg(p) == <<-p[1], p[2]>>
RDivInt(p, k) == Rat(p[1], p[2] * k)
RLess(p, q) == p[1] * q[2] < q[1] * p[2]

NumInt(n) == <<Rat(n, 1), Rat(0, 1)>>
NumRat(n, d) == <<Rat(n, d), Rat(0, 1)>>
NAdd(x, y) == <<RAdd(x[1], y[1]), RAdd(x[2], y[2])>>
NSub(x, y) == <<RAdd(x[1], RNeg(y[1])), RAdd(x[2], RNeg(y[2]))>>
NDivInt(x, k) == <<RDivInt(x[1], k), RDivInt(x[2], k)>>
NLess(x, y) == RLess(x[1], y[1]) \/ (x[1] = y[1] /\ RLess(x[2], y[2]))
NLeq(x, y) == x = y \/ NLess(x, y)

\* tol = 1e-10 (form_transition_matrix)
Tol == <<Rat(0, 1), Rat(1, 1)>>
One == NumInt(1)
Zero == NumInt(0)

\* np.clip(x, lo, hi)
Clip(x, lo, hi) == IF NLess(x, lo) THEN lo ELSE IF NLess(hi, x) THEN hi ELSE x

RECURSIVE SumTo(_, _)
\* f[1] + ... + f[n] for integer-valued f
SumTo(f, n) == IF n = 0 THEN 0 ELSE f[n] + SumTo(f, n - 1)

RECURSIVE NSumTo(_, _)
\* f[1] + ... + f[n] for number-valued f
NSumTo(f, n) == IF n = 0 THEN Zero ELSE NAdd(f[n], NSumTo(f, n - 1))

(***************************************************************************)
(* make_transmat and DiagGHMM                                              *)
(***************************************************************************)
\* np.diag([v] * n): v on the diagonal, 0 elsewhere
NpDiag(v, n) == [i \in 1..n |-> [j \in 1..n |-> IF i = j THEN v ELSE Zero]]

\* m += c  (broadcast of a scalar over a matrix)
MatAddScalar(m, c, n) == [i \in 1..n |-> [j \in 1..n |-> NAdd(m[i][j], c)]]

\* make_transmat(diag, K), K /= 1: (K - 1 = 0 raises ZeroDivisionError, see SelectIter)
make_transmat(diag, k) ==
    LET offdiag == NDivInt(NSub(One, diag), k - 1)
    IN  MatAddScalar(NpDiag(NSub(diag, offdiag), k), offdiag, k)

\* (mutant of form_transition_matrix) the matrix rebuilt without clipping diag
UnclippedTransitionMatrix(diag, k) ==
    LET offdiag == NDivInt(NSub(One, diag), k - 1)
    IN  MatAddScalar(NpDiag(NSub(diag, offdiag), k), offdiag, k)

\* DiagGHMM.form_transition_matrix(diag) with self.n_components = k
form_transition_matrix(diag, k) ==
    LET tol == Tol
        d == Clip(diag, tol, NSub(One, tol))
        offdiag == NDivInt(NSub(One, d), k - 1)
    IN  MatAddScalar(NpDiag(NSub(d, offdiag), k), offdiag, k)

\* The initial leak probabilities tau tried: 0, 1/2 and the default 10e-6 = 1e5 * tol
Taus == {NumRat(0, 1), NumRat(1, 2), <<Rat(0, 1), Rat(100000, 1)>>}

\* What the base class's M-step leaves in self.transmat_, as far as _do_mstep reads
\* it: per row its diagonal entry (in units of 1/TransGrid) and its row sum, which
\* is 1 or, for a state no transition was observed from, 0.
BaseRows == {r \in [diag : 0..TransGrid, sum : {0, 1}] : r.sum = 0 => r.diag = 0}

\* stats['denoms']: per state the posterior mass summed over the frames of a sequence
Denoms(k) == {w \in [1..k -> 0..MaxMass] : SumTo(w, k) > 0}

\* np.sum(np.diag(x)) and np.sum(x) for x = (self.transmat_.T * denoms).T, in units
\* of 1/TransGrid
MstepNum(base, denoms, k) == SumTo([i \in 1..k |-> base[i].diag * denoms[i]], k)
MstepDenom(base, denoms, k) ==
    SumTo([i \in 1..k |-> base[i].sum * TransGrid * denoms[i]], k)

(***************************************************************************)
(* The values of the variables a specification does not use.               *)
(***************************************************************************)
IdleTable == bb = <<>> /\ sample_labels = <<>> /\ chr_labels = <<>>

IdleSelect ==
    /\ tracks = <<>> /\ minK = 0 /\ maxK = 0 /\ tmat = "diag" /\ decode_alg = "viterbi"
    /\ X = <<>> /\ lengths = <<>> /\ K = 0
    /\ best_K = 0 /\ best_score = 0 /\ best_model = NoModel /\ best_labels = NoLabels
    /\ rs = <<>>

IdleDiag == n_components = 0 /\ transmat_ = <<>> /\ stats = NoStats /\ n_done = 0

(***************************************************************************)
(* reindex                                                                 *)
(***************************************************************************)
\* number of positions of seq holding v
CountOf(seq, v) == Cardinality({i \in 1..Len(seq) : seq[i] = v})

RECURSIVE FirstSeen(_)
\* the keys of Counter(labels) in insertion order: the distinct labels by first
\* occurrence
FirstSeen(seq) ==
    IF seq = <<>> THEN <<>>
    ELSE LET front == FirstSeen(SubSeq(seq, 1, Len(seq) - 1))
             last == seq[Len(seq)]
         IN  IF \E i \in 1..Len(front) : front[i] = last THEN front
             ELSE Append(front, last)

\* (mutant of InsertByCount) a sort that puts a key before the keys of equal count
InsertByCountUnstable(sorted, v, seq) ==
    LET n == Cardinality({i \in 1..Len(sorted) :
                            CountOf(seq, sorted[i]) > CountOf(seq, v)})
    IN  SubSeq(sorted, 1, n) \o <<v>> \o SubSeq(sorted, n + 1, Len(sorted))

\* insert key v into the list sorted so far, behind every key whose count is not
\* smaller: sorted(..., reverse=True) is stable
InsertByCount(sorted, v, seq) ==
    LET n == Cardinality({i \in 1..Len(sorted) :
                            CountOf(seq, sorted[i]) >= CountOf(seq, v)})
    IN  SubSeq(sorted, 1, n) \o <<v>> \o SubSeq(sorted, n + 1, Len(sorted))

RECURSIVE MostCommonOf(_, _)
\* the keys in the order of Counter(labels).most_common()
MostCommonOf(keys, seq) ==
    IF keys = <<>> THEN <<>>
    ELSE InsertByCount(MostCommonOf(SubSeq(keys, 1, Len(keys) - 1), seq),
                       keys[Len(keys)], seq)

most_common(seq) == MostCommonOf(FirstSeen(seq), seq)

\* old2new[v]: the 1-based rank of v in most_common()
old2new(seq, v) ==
    LET mc == most_common(seq) IN CHOOSE j \in 1..Len(mc) : mc[j] = v

reindex(seq) == [i \in 1..Len(seq) |-> old2new(seq, seq[i])]

\* reindex(labels) called on its own
ReindexCall ==
    /\ pc = "reindex"
    /\ best_labels' = reindex(labels)
    /\ calls' = calls \cup {<<"reindex", 0>>}
    /\ pc' = "reindexed"
    /\ UNCHANGED <<err, mainVars, tracks, minK, maxK, tmat, decode_alg, X, lengths, K,
                   best_K, best_score, best_model, rs, labels, segments, diagVars>>

RECURSIVE SeqsUpTo(_, _)
\* all sequences over S of length at most n
SeqsUpTo(S, n) ==
    IF n = 0 THEN {<<>>}
    ELSE LET shorter == SeqsUpTo(S, n - 1)
         IN  shorter \cup {Append(q, v) : q \in shorter, v \in S}

(***************************************************************************)
(* form_seg                                                                *)
(***************************************************************************)
\* NaN, what numpy's 0/0 evaluates to (with a RuntimeWarning, no exception)
NaN == <<0, 0>>

\* numpy true division a / b of two integer scalars
NpDivide(a, b) == IF b = 0 THEN NaN ELSE Rat(a, b)

Min(a, b) == IF a <= b THEN a ELSE b
Max(a, b) == IF a >= b THEN a ELSE b

\* the rows of the group (key, sample) of bbc.groupby(['CLUSTER', 'SAMPLE'])
GroupRows(bbc, key, sample) ==
    {i \in 1..Len(bbc) : bbc[i].cluster = key /\ bbc[i].sample = sample}

RECURSIVE SumOver(_, _)
\* the sum of f[i] over the indices i in S
SumOver(f, S) ==
    IF S = {} THEN 0
    ELSE LET i == CHOOSE j \in S : TRUE IN f[i] + SumOver(f, S \ {i})

\* (mutant of ExceedsThreshold) (0.5 - baf) >= balanced_threshold
ReachesThreshold(baf, threshold) ==
    /\ baf /= NaN
    /\ ~RLess(RAdd(Rat(1, 2), RNeg(baf)), threshold)

\* (0.5 - baf) > balanced_threshold; a comparison with NaN is False
ExceedsThreshold(baf, threshold) ==
    /\ baf /= NaN
    /\ RLess(threshold, RAdd(Rat(1, 2), RNeg(baf)))

\* baf if (0.5 - baf) > balanced_threshold else 0.5
BalancedBaf(baf, threshold) ==
    IF ExceedsThreshold(baf, threshold) THEN baf ELSE Rat(1, 2)

\* one row of the segment table
SegRow(bbc, key, sample, threshold) ==
    LET g == GroupRows(bbc, key, sample)
        a == SumOver([i \in 1..Len(bbc) |-> Min(bbc[i].alpha, bbc[i].beta)], g)
        b == SumOver([i \in 1..Len(bbc) |-> Max(bbc[i].alpha, bbc[i].beta)], g)
    IN  [id |-> key, sample |-> sample, nbins |-> Cardinality(g), alpha |-> a,
         beta |-> b, baf |-> BalancedBaf(NpDivide(a, a + b), threshold)]

\* the group keys, one integer per (CLUSTER, SAMPLE) pair, ordered as groupby does
GroupKey(r) == r.cluster * 100 + r.sample

RECURSIVE SortInts(_)
SortInts(S) ==
    IF S = {} THEN <<>>
    ELSE LET m == CHOOSE x \in S : \A y \in S : x <= y
         IN  <<m>> \o SortInts(S \ {m})

form_seg(bbc, threshold) ==
    LET keys == SortInts({GroupKey(bbc[i]) : i \in 1..Len(bbc)})
    IN  [k \in 1..Len(keys) |->
            SegRow(bbc, keys[k] \div 100, keys[k] % 100, threshold)]

\* main, lines 111-114: seg = form_seg(bb, args['diploidbaf']); seg.to_csv(...)
FormSeg ==
    /\ pc = "form_seg"
    /\ segments' = form_seg(bb, args.diploidbaf)
    /\ calls' = calls \cup {<<"form_seg", 0>>}
    /\ pc' = "done"
    /\ UNCHANGED <<err, mainVars, selectVars, labels, diagVars>>

(***************************************************************************)
(* hmm_model_select                                                        *)
(***************************************************************************)
\* A track is an array of shape (depth, Len(cols)); cols names the genomic position
\* <<chromosome, start, end>> each column holds the features of.
Degenerate(a) == ~(a.depth > 0 /\ Len(a.cols) > 0)

RECURSIVE NonDegenerate(_)
\* [a for a in tracks if a.shape[0] > 0 and a.shape[1] > 0]
NonDegenerate(ts) ==
    IF ts = <<>> THEN <<>>
    ELSE LET front == NonDegenerate(SubSeq(ts, 1, Len(ts) - 1))
             last == ts[Len(ts)]
         IN  IF Degenerate(last) THEN front ELSE Append(front, last)

RECURSIVE ConcatCols(_)
\* the rows of np.concatenate(tracks, axis=1).T, in order
ConcatCols(ts) ==
    IF ts = <<>> THEN <<>>
    ELSE ConcatCols(SubSeq(ts, 1, Len(ts) - 1)) \o ts[Len(ts)].cols

\* The label paths model.decode may return for n rows and k states: the constant
\* path and the path cycling through the states
Decodings(k, n) == {[i \in 1..n |-> 0], [i \in 1..n |-> i % k]}

\* The silhouette scores silhouette_score may return, in units of 1/MaxScore
Scores == (-MaxScore)..MaxScore

\* the model built for K states under regime tm (lines 229-252)
NewModel(k, tm) ==
    [n_components |-> k,
     cls |-> IF tm \in {"fixed", "free"} THEN "GaussianHMM" ELSE "DiagGHMM",
     params |-> IF tm = "fixed" THEN "smc" ELSE "smct"]

\* the run ends with exception e
Raise(e) == pc' = "failed" /\ err' = e

\* score > best_score (line 262)
Improves(score, best) == score > best

\* lines 202-223: the assertions, the filter, X and lengths, the initial best_*
SelectEnter ==
    /\ pc = "select_enter"
    /\ LET ts == NonDegenerate(tracks)
       IN  IF tmat \notin {"fixed", "diag", "free"} \/ decode_alg \notin {"map", "viterbi"}
           THEN /\ Raise("AssertionError")
                /\ UNCHANGED <<X, lengths, K, best_K, best_score, best_model,
                               best_labels, rs>>
           ELSE IF Len(ts) = 0
           THEN \* tracks[0] on an empty list
                /\ Raise("IndexError")
                /\ UNCHANGED <<X, lengths, K, best_K, best_score, best_model,
                               best_labels, rs>>
           ELSE IF \E i, j \in 1..Len(ts) : ts[i].depth /= ts[j].depth
           THEN \* np.concatenate of arrays whose first dimensions differ
                /\ Raise("ValueError")
                /\ UNCHANGED <<X, lengths, K, best_K, best_score, best_model,
                               best_labels, rs>>
           ELSE /\ X' = ConcatCols(ts)
                /\ lengths' = [i \in 1..Len(ts) |-> Len(ts[i].cols)]
                /\ best_K' = 0
                /\ best_score' = 0
                /\ best_model' = NoModel
                /\ best_labels' = NoLabels
                /\ rs' = <<>>
                /\ K' = minK
                /\ pc' = "select_loop"
                /\ err' = err
    /\ calls' = calls \cup {<<"hmm_model_select", 0>>}
    /\ UNCHANGED <<mainVars, tracks, minK, maxK, tmat, decode_alg, labels, segments,
                   diagVars>>

\* lines 224-266: one iteration of the sweep
SelectIter ==
    /\ pc = "select_loop"
    /\ K <= maxK
    /\ IF K - 1 = 0
       THEN \* make_transmat: (1 - diag) / (K - 1) on Python floats
            /\ Raise("ZeroDivisionError")
            /\ calls' = calls \cup {<<"make_transmat", K>>}
            /\ UNCHANGED <<K, best_K, best_score, best_model, best_labels, rs>>
       ELSE \E path \in Decodings(K, Len(X)), score \in Scores :
            /\ rs' = (K :> [score |-> score, labels |-> path]) @@ rs
            /\ IF Improves(score, best_score)
               THEN /\ best_score' = score
                    /\ best_model' = NewModel(K, tmat)
                    /\ best_labels' = path
                    /\ best_K' = K
               ELSE UNCHANGED <<best_score, best_model, best_labels, best_K>>
            /\ K' = K + 1
            /\ calls' = calls \cup {<<"make_transmat", K>>, <<"fit", K>>,
                                    <<"decode", K>>, <<"silhouette_score", K>>}
            /\ UNCHANGED <<pc, err>>
    /\ UNCHANGED <<mainVars, tracks, minK, maxK, tmat, decode_alg, X, lengths, labels,
                   segments, diagVars>>

\* line 268: return best_score, best_model, best_labels, best_K, rs
SelectReturn ==
    /\ pc = "select_loop"
    /\ K > maxK
    /\ pc' = "select_returned"
    /\ UNCHANGED <<err, calls, mainVars, selectVars, labels, segments, diagVars>>

(***************************************************************************)
(* read_bb                                                                 *)
(***************************************************************************)
\* A row of the bin table: chr, start, end, sample, alpha, beta and, once main has
\* assigned it, cluster (0 before).  RD, #SNPS, COV and BAF are carried through
\* unread by the code modelled here and are left out.
Pos(r) == <<r.chr, r.start, r.end>>

\* sort keys: the bin table by (#CHR, START, SAMPLE), one sample's bins by START,
\* the pivot's index by (#CHR, START, END)
ByChrStartSample(r) == r.chr * 10000 + r.start * 100 + r.sample
ByStart(r) == r.start
ByPos(p) == p[1] * 10000 + p[2] * 100 + p[3]

RECURSIVE SortedBySample(_)
\* (mutant of SortedBB) bb.sort_values(by=['#CHR', 'SAMPLE', 'START'])
SortedBySample(S) ==
    IF S = {} THEN <<>>
    ELSE LET m == CHOOSE x \in S : \A y \in S :
                     x.chr * 10000 + x.sample * 1000 + x.start
                        <= y.chr * 10000 + y.sample * 1000 + y.start
         IN  <<m>> \o SortedBySample(S \ {m})

RECURSIVE SortedBB(_)
\* bb.sort_values(by=['#CHR', 'START', 'SAMPLE']) of a set of rows
SortedBB(S) ==
    IF S = {} THEN <<>>
    ELSE LET m == CHOOSE x \in S : \A y \in S : ByChrStartSample(x) <= ByChrStartSample(y)
         IN  <<m>> \o SortedBB(S \ {m})

RECURSIVE SortedByStart(_)
\* the positions of a set of rows of one sample, after df0.sort_values('START')
SortedByStart(S) ==
    IF S = {} THEN <<>>
    ELSE LET m == CHOOSE x \in S : \A y \in S : ByStart(x) <= ByStart(y)
         IN  <<Pos(m)>> \o SortedByStart(S \ {m})

RECURSIVE SortedPositions(_)
\* the index of bb.pivot(index=['#CHR', 'START', 'END'], ...)
SortedPositions(S) ==
    IF S = {} THEN <<>>
    ELSE LET m == CHOOSE x \in S : \A y \in S : ByPos(x) <= ByPos(y)
         IN  <<m>> \o SortedPositions(S \ {m})

RowSet(table) == {table[i] : i \in 1..Len(table)}

\* the groups of bb.groupby(['#CHR']) and df0.groupby('SAMPLE'), in key order
Chroms(table) == SortInts({r.chr : r \in RowSet(table)})
SamplesOf(table, ch) == SortInts({r.sample : r \in {x \in RowSet(table) : x.chr = ch}})
Df(table, ch, sample) ==
    SortedByStart({r \in RowSet(table) : r.chr = ch /\ r.sample = sample})

\* np.where(df.START[1:] - df.END[:-1] > 0)[0], as the 1-based index of the bin
\* before each gap
Gaps(df) == {i \in 1..(Len(df) - 1) : df[i + 1][2] - df[i][3] > 0}

\* (mutant of GapSplit) gap = gaps[0]
GapSplitEarly(df) == (CHOOSE i \in Gaps(df) : \A j \in Gaps(df) : i <= j) - 1

\* gap = gaps[0] + 1: the number of bins of df.iloc[:gap]
GapSplit(df) == CHOOSE i \in Gaps(df) : \A j \in Gaps(df) : i <= j

\* the two arrays (BAF, RD) one sample appends to p_arrs / q_arrs
SampleP(df) ==
    LET p == IF Gaps(df) /= {} THEN SubSeq(df, 1, GapSplit(df)) ELSE df
    IN  <<p, p>>
SampleQ(df) ==
    IF Gaps(df) /= {} THEN LET q == SubSeq(df, GapSplit(df) + 1, Len(df)) IN <<q, q>>
    ELSE <<>>

RECURSIVE Parrs(_, _, _)
Parrs(table, ch, samples) ==
    IF samples = <<>> THEN <<>>
    ELSE Parrs(table, ch, SubSeq(samples, 1, Len(samples) - 1))
            \o SampleP(Df(table, ch, samples[Len(samples)]))

RECURSIVE Qarrs(_, _, _)
Qarrs(table, ch, samples) ==
    IF samples = <<>> THEN <<>>
    ELSE Qarrs(table, ch, SubSeq(samples, 1, Len(samples) - 1))
            \o SampleQ(Df(table, ch, samples[Len(samples)]))

\* np.array(arrs): one row per array; the k-th column holds the k-th bin of every row
AsTrack(arrs) == [depth |-> Len(arrs), cols |-> arrs[1]]
Ragged(arrs) == \E i, j \in 1..Len(arrs) : Len(arrs[i]) /= Len(arrs[j])

\* lines 172-180 for one chromosome: its tracks and their labels
ChrTracks(table, ch) ==
    LET p == Parrs(table, ch, SamplesOf(table, ch))
        q == Qarrs(table, ch, SamplesOf(table, ch))
    IN  IF Len(q) > 0 THEN <<AsTrack(p), AsTrack(q)>> ELSE <<AsTrack(p)>>
ChrLabels(table, ch) ==
    IF Len(Qarrs(table, ch, SamplesOf(table, ch))) > 0
    THEN <<<<ch, "p">>, <<ch, "q">>>> ELSE <<<<ch, "p">>>>

RECURSIVE AllTracks(_, _)
AllTracks(table, chs) ==
    IF chs = <<>> THEN <<>>
    ELSE AllTracks(table, SubSeq(chs, 1, Len(chs) - 1))
            \o ChrTracks(table, chs[Len(chs)])

RECURSIVE AllLabels(_, _)
AllLabels(table, chs) ==
    IF chs = <<>> THEN <<>>
    ELSE AllLabels(table, SubSeq(chs, 1, Len(chs) - 1))
            \o ChrLabels(table, chs[Len(chs)])

\* assert len(gaps) == 1 fails for some sample of some chromosome
TooManyGaps(table) ==
    \E r \in RowSet(table) : Cardinality(Gaps(Df(table, r.chr, r.sample))) > 1

\* np.array of arrays of unequal length
RaggedArrs(table) ==
    \E r \in RowSet(table) :
        \/ Ragged(Parrs(table, r.chr, SamplesOf(table, r.chr)))
        \/ Ragged(Qarrs(table, r.chr, SamplesOf(table, r.chr)))

\* main, lines 20-21, and read_bb
ReadBB ==
    /\ pc = "read_bb"
    /\ calls' = calls \cup {<<"read_bb", 0>>}
    /\ IF TooManyGaps(bb)
       THEN /\ Raise("AssertionError")
            /\ UNCHANGED <<bb, tracks, sample_labels, chr_labels>>
       ELSE IF RaggedArrs(bb)
       THEN /\ Raise("ValueError")
            /\ UNCHANGED <<bb, tracks, sample_labels, chr_labels>>
       ELSE /\ tracks' = AllTracks(bb, Chroms(bb))
            /\ chr_labels' = AllLabels(bb, Chroms(bb))
            /\ sample_labels' = IF bb = <<>> THEN <<>>
                                ELSE SamplesOf(bb, Chroms(bb)[1])
            /\ bb' = SortedBB(RowSet(bb))
            /\ pc' = "main_args"
            /\ err' = err
    /\ UNCHANGED <<args, minK, maxK, tmat, decode_alg, X, lengths, K, best_K,
                   best_score, best_model, best_labels, rs, labels, segments, diagVars>>

(***************************************************************************)
(* main                                                                    *)
(***************************************************************************)
\* (mutant of IsTrivial) the shortcut taken for no exactK
IsTrivialNever(a) == a.exactK > 1 /\ a.exactK = 1

\* args['exactK'] > 0 and args['exactK'] == 1  (line 36)
IsTrivial(a) == a.exactK > 0 /\ a.exactK = 1

\* [1] * n
TrivialLabels(n) == [i \in 1..n |-> 1]

\* np.repeat(seq, n)
NpRepeat(seq, n) == [i \in 1..(Len(seq) * n) |-> seq[((i - 1) \div n) + 1]]

\* lines 23-56: minK and maxK, then the trivial clustering or the call of
\* hmm_model_select
MainArgs ==
    /\ pc = "main_args"
    /\ minK' = IF args.exactK > 0 THEN args.exactK ELSE args.minK
    /\ maxK' = IF args.exactK > 0 THEN args.exactK ELSE args.maxK
    /\ IF IsTrivial(args)
       THEN IF Len(sample_labels) = 0
            THEN /\ Raise("ZeroDivisionError")
                 /\ UNCHANGED <<best_labels, tmat, decode_alg>>
            ELSE /\ best_labels' = TrivialLabels(Len(bb) \div Len(sample_labels))
                 /\ pc' = "trivial"
                 /\ UNCHANGED <<err, tmat, decode_alg>>
       ELSE /\ tmat' = args.transmat
            /\ decode_alg' = args.decoding
            /\ pc' = "select_enter"
            /\ UNCHANGED <<err, best_labels>>
    /\ UNCHANGED <<calls, mainVars, tracks, X, lengths, K, best_K, best_score,
                   best_model, rs, labels, segments, diagVars>>

\* lines 58-59: best_labels = reindex(best_labels);
\* bb['CLUSTER'] = np.repeat(best_labels, len(sample_labels))
MainAssign ==
    /\ pc \in {"trivial", "select_returned"}
    /\ labels' = best_labels
    /\ calls' = calls \cup {<<"reindex", 0>>}
    /\ IF best_labels = NoLabels
       THEN \* iterating over None
            /\ Raise("TypeError")
            /\ UNCHANGED <<bb, best_labels>>
       ELSE LET col == NpRepeat(reindex(best_labels), Len(sample_labels))
            IN  IF Len(col) /= Len(bb)
                THEN /\ Raise("ValueError")
                     /\ UNCHANGED <<bb, best_labels>>
                ELSE /\ best_labels' = reindex(best_labels)
                     /\ bb' = [i \in 1..Len(bb) |-> [bb[i] EXCEPT !.cluster = col[i]]]
                     /\ pc' = "main_check"
                     /\ err' = err
    /\ UNCHANGED <<args, sample_labels, chr_labels, tracks, minK, maxK, tmat,
                   decode_alg, X, lengths, K, best_K, best_score, best_model, rs,
                   segments, diagVars>>

RECURSIVE RunEnd(_, _, _)
\* lines 77-79: the index after the run of adjoining bins that starts before i
RunEnd(idx, first, i) ==
    IF i <= Len(idx) /\ idx[i][1] = idx[first][1] /\ idx[i][2] = idx[i - 1][3]
    THEN RunEnd(idx, first, i + 1) ELSE i

RECURSIVE LengthsMatch(_, _, _)
\* lines 64-87: from track chr_idx on, every track's label and width match the run
\* of adjoining bins at index i of the pivot
LengthsMatch(idx, chr_idx, i) ==
    IF chr_idx > Len(tracks) THEN TRUE
    ELSE /\ i <= Len(idx)
         /\ idx[i][1] = chr_labels[chr_idx][1]
         /\ Len(tracks[chr_idx].cols) = RunEnd(idx, i, i + 1) - i
         /\ LengthsMatch(idx, chr_idx + 1, RunEnd(idx, i, i + 1))

\* line 91: np.all(cl_check == cl_check[0])
ClustersAgree(table) ==
    \A r \in RowSet(table) : \A q \in RowSet(table) :
        (Pos(q) = Pos(r) /\ q.sample = sample_labels[1]) => r.cluster = q.cluster

\* lines 61-91: the consistency assertions
MainCheck ==
    /\ pc = "main_check"
    /\ IF /\ LengthsMatch(SortedPositions({Pos(r) : r \in RowSet(bb)}), 1, 1)
          /\ ClustersAgree(bb)
       THEN pc' = "main_output" /\ err' = err
       ELSE Raise("AssertionError")
    /\ UNCHANGED <<calls, mainVars, selectVars, labels, segments, diagVars>>

\* lines 93-109: bb.to_csv(args['outbins'], ...)
MainOutput ==
    /\ pc = "main_output"
    /\ calls' = calls \cup {<<"to_csv", 0>>}
    /\ pc' = "form_seg"
    /\ UNCHANGED <<err, mainVars, selectVars, labels, segments, diagVars>>

(***************************************************************************)
(* SpecDiag: DiagGHMM as hmm_model_select builds and fits it.  The base    *)
(* class drives fit(): in every iteration it calls                         *)
(* _accumulate_sufficient_statistics once per sequence and then _do_mstep. *)
(***************************************************************************)
\* hmm_model_select, lines 227 and 246-255: A = make_transmat(1 - tau, K);
\* model = DiagGHMM(n_components=K, ...); model.transmat_ = A
DiagConstruct ==
    /\ pc = "diag_construct"
    /\ transmat_' = make_transmat(NSub(One, args.tau), n_components)
    /\ stats' = NoStats
    /\ pc' = "diag_fit"
    /\ calls' = calls \cup {<<"make_transmat", n_components>>}
    /\ UNCHANGED <<err, mainVars, selectVars, labels, segments, n_components, n_done>>

\* DiagGHMM._accumulate_sufficient_statistics for one sequence: stats['denoms'] is
\* assigned (not added to) the column sums of the normalised posteriors
DiagAccumulate ==
    /\ pc = "diag_fit"
    /\ n_done < MaxIter
    /\ \E w \in Denoms(n_components) : stats' = [has |-> TRUE, denoms |-> w]
    /\ UNCHANGED <<pc, err, calls, mainVars, selectVars, labels, segments,
                   n_components, transmat_, n_done>>

\* DiagGHMM._do_mstep: the base class's M-step, then the diag scalar and the rebuilt
\* matrix.  The next iteration starts from fresh statistics.
DiagMstep ==
    /\ pc = "diag_fit"
    /\ stats.has
    /\ \E nd \in {<<MstepNum(base, stats.denoms, n_components),
                     MstepDenom(base, stats.denoms, n_components)>> :
                        base \in [1..n_components -> BaseRows]} :
          \* num / denom is defined
          /\ nd[2] > 0
          /\ transmat_' = form_transition_matrix(NumRat(nd[1], nd[2]), n_components)
    /\ stats' = NoStats
    /\ n_done' = n_done + 1
    /\ calls' = calls \cup {<<"_do_mstep", n_components>>}
    /\ UNCHANGED <<pc, err, mainVars, selectVars, labels, segments, n_components>>

\* fit() returns after an M-step (convergence or the iteration cap)
DiagFitted ==
    /\ pc = "diag_fit"
    /\ n_done >= 1
    /\ ~stats.has
    /\ pc' = "diag_fitted"
    /\ UNCHANGED <<err, calls, mainVars, selectVars, labels, segments, diagVars>>

InitDiag ==
    /\ pc = "diag_construct"
    /\ err = "none"
    /\ calls = {}
    /\ args \in [tau : Taus]
    /\ n_components \in 2..MaxK
    /\ transmat_ = <<>>
    /\ stats = NoStats
    /\ n_done = 0
    /\ IdleTable
    /\ IdleSelect
    /\ labels = <<>>
    /\ segments = <<>>

NextDiag == DiagConstruct \/ DiagAccumulate \/ DiagMstep \/ DiagFitted

SpecDiag == InitDiag /\ [][NextDiag]_vars

InitReindex ==
    /\ pc = "reindex"
    /\ err = "none"
    /\ calls = {}
    /\ args = [tau |-> Zero]
    /\ labels \in SeqsUpTo(0..MaxLabel, MaxLen)
    /\ segments = <<>>
    /\ IdleTable
    /\ IdleSelect
    /\ IdleDiag

NextReindex == ReindexCall

SpecReindex == InitReindex /\ [][NextReindex]_vars

\* C5: for every non-empty label list, reindex returns a list of the same length that
\* uses exactly the integers 1..K_used (K_used = number of distinct input labels),
\* gives two positions the same new id iff they had the same old label, and numbers
\* the labels by nonincreasing frequency, equally frequent labels by first occurrence.
ReindexProperty ==
    (pc = "reindexed" /\ labels /= <<>>) =>
        LET n == Len(labels)
            used == Cardinality({labels[i] : i \in 1..n})
        IN  /\ Len(best_labels) = n
            /\ {best_labels[i] : i \in 1..n} = 1..used
            /\ \A i, j \in 1..n :
                  (best_labels[i] = best_labels[j]) <=> (labels[i] = labels[j])
            /\ \A i, j \in 1..n :
                  best_labels[i] < best_labels[j] =>
                      \/ CountOf(labels, labels[i]) > CountOf(labels, labels[j])
                      \/ /\ CountOf(labels, labels[i]) = CountOf(labels, labels[j])
                         /\ \E p \in 1..n :
                               /\ labels[p] = labels[i]
                               /\ \A q \in 1..n : labels[q] = labels[j] => p < q

\* C5 witness: three labels, the most frequent seen last, the other two tied
ReindexWitness ==
    /\ pc = "reindexed"
    /\ labels = <<2, 0, 1, 1>>
    /\ best_labels = <<2, 3, 1, 1>>

(***************************************************************************)
(* SpecSeg: form_seg called on every clustered bin table of at most        *)
(* MaxRows rows.                                                           *)
(***************************************************************************)
\* the (ALPHA, BETA) pairs of a row
AllelePairs == {<<0, 0>>, <<1, 1>>, <<2, 3>>, <<3, 2>>, <<50, 51>>}

\* the values of balanced_threshold: 0.001, 0.05, 0.1
Thresholds == {Rat(1, 1000), Rat(5, 100), Rat(1, 10)}

SegRows ==
    {[chr |-> 1, start |-> 0, end |-> 1, sample |-> s, alpha |-> p[1], beta |-> p[2],
      cluster |-> c] : s \in 1..2, p \in AllelePairs, c \in 1..2}

InitSeg ==
    /\ pc = "form_seg"
    /\ err = "none"
    /\ calls = {}
    /\ args \in [diploidbaf : Thresholds]
    /\ bb \in SeqsUpTo(SegRows, MaxRows)
    /\ sample_labels = <<>>
    /\ chr_labels = <<>>
    /\ labels = <<>>
    /\ segments = <<>>
    /\ IdleSelect
    /\ IdleDiag

NextSeg == FormSeg

SpecSeg == InitSeg /\ [][NextSeg]_vars

\* the allele totals of a (cluster, sample) group, read off the bin table
GroupA(key, sample) ==
    SumOver([i \in 1..Len(bb) |-> IF bb[i].alpha < bb[i].beta THEN bb[i].alpha
                                  ELSE bb[i].beta], GroupRows(bb, key, sample))
GroupB(key, sample) ==
    SumOver([i \in 1..Len(bb) |-> IF bb[i].alpha < bb[i].beta THEN bb[i].beta
                                  ELSE bb[i].alpha], GroupRows(bb, key, sample))

\* |1/2 - a/(a+b)| <= n/d, over the integers (a + b > 0)
WithinThreshold(a, b, t) ==
    LET diff == (a + b) - 2 * a
    IN  Abs(diff) * t[2] <= t[1] * 2 * (a + b)

\* C3: a (cluster, sample) group whose allele totals satisfy a + b = 0 ends form_seg
\* in a reported fatal error: no segment row is produced for it, and its BAF is
\* never reported as 0.5 or any other default.
ZeroDepthIsFatal ==
    pc = "done" =>
        \A i \in 1..Len(bb) :
            GroupA(bb[i].cluster, bb[i].sample) + GroupB(bb[i].cluster, bb[i].sample) > 0

\* C4: for every (cluster, sample) group with a + b > 0 the reported BAF is exactly
\* 0.5 if |0.5 - a/(a+b)| <= balanced_threshold (boundary included) and a/(a+b)
\* otherwise; there is one row per group, with the group's a and b.
BalancedBafProperty ==
    pc = "done" =>
        /\ \A i \in 1..Len(bb) : \E k \in 1..Len(segments) :
              segments[k].id = bb[i].cluster /\ segments[k].sample = bb[i].sample
        /\ \A k \in 1..Len(segments) :
              LET a == GroupA(segments[k].id, segments[k].sample)
                  b == GroupB(segments[k].id, segments[k].sample)
              IN  /\ segments[k].alpha = a
                  /\ segments[k].beta = b
                  /\ a + b > 0 =>
                        segments[k].baf = IF WithinThreshold(a, b, args.diploidbaf)
                                          THEN <<1, 2>>
                                          ELSE Rat(a, a + b)

\* C4 witness: a = 50, b = 51 reported as 50/101 under threshold 0.001, and a group
\* exactly on the boundary (a = 4, b = 6, threshold 0.1) reported as 0.5
BalancedBafWitness ==
    /\ pc = "done"
    /\ \/ /\ args.diploidbaf = Rat(1, 1000)
          /\ \E k \in 1..Len(segments) :
                /\ segments[k].alpha = 50 /\ segments[k].beta = 51
                /\ segments[k].baf = <<50, 101>>
       \/ /\ args.diploidbaf = Rat(1, 10)
          /\ \E k \in 1..Len(segments) :
                /\ segments[k].alpha = 4 /\ segments[k].beta = 6
                /\ segments[k].baf = <<1, 2>>

(***************************************************************************)
(* SpecSelect: hmm_model_select called on every list of at most two tracks *)
(* of at most MaxCols columns, degenerate tracks included.                 *)
(***************************************************************************)
TrackShapes ==
    {[depth |-> d, cols |-> [i \in 1..c |-> <<t, i, i + 1>>]] :
        d \in {0, 2, 4}, c \in 0..MaxCols, t \in {1}}

InitSelect ==
    /\ pc = "select_enter"
    /\ err = "none"
    /\ calls = {}
    /\ args = [tau |-> <<Rat(0, 1), Rat(100000, 1)>>]
    /\ tracks \in SeqsUpTo(TrackShapes, 2)
    /\ minK \in 1..MaxK
    /\ maxK \in 1..MaxK
    /\ tmat \in {"fixed", "diag", "free", "other"}
    /\ decode_alg \in {"map", "viterbi", "other"}
    /\ X = <<>> /\ lengths = <<>> /\ K = 0
    /\ best_K = 0 /\ best_score = 0 /\ best_model = NoModel /\ best_labels = NoLabels
    /\ rs = <<>>
    /\ labels = <<>>
    /\ segments = <<>>
    /\ IdleTable
    /\ IdleDiag

NextSelect == SelectEnter \/ SelectIter \/ SelectReturn

SpecSelect == InitSelect /\ [][NextSelect]_vars

\* C1: after a non-empty sweep minK..maxK (minK >= 2) best_K is the smallest K whose
\* score is the maximum of the sweep, and best_score, best_model and best_labels are
\* the score, model and labels of that K (so best_K /= 0 and best_labels is not None).
BestIsFirstMaximum ==
    (pc = "select_returned" /\ 2 <= minK /\ minK <= maxK) =>
        /\ best_K \in minK..maxK
        /\ \A k \in minK..maxK : rs[k].score <= rs[best_K].score
        /\ \A k \in minK..maxK : rs[k].score = rs[best_K].score => best_K <= k
        /\ best_score = rs[best_K].score
        /\ best_labels = rs[best_K].labels
        /\ best_model = NewModel(best_K, tmat)

\* C7: when every supplied track is degenerate (an empty list included) and the
\* configuration is valid, hmm_model_select does not raise.
DegenerateTolerated ==
    (/\ \A i \in 1..Len(tracks) : Degenerate(tracks[i])
     /\ tmat \in {"fixed", "diag", "free"}
     /\ decode_alg \in {"map", "viterbi"}) => pc /= "failed"

(***************************************************************************)
(* Spec: main on every bin table of one or two chromosomes and two samples *)
(* with the same bins, at most MaxBins bins in all, each bin adjoining its *)
(* predecessor, separated from it by a gap, or overlapping it.             *)
(***************************************************************************)
\* a chromosome's layout: for each bin but the first, its START minus the END of the
\* bin before it (0: adjoining, 1: a gap, -1: an overlap)
ChrLayouts == SeqsUpTo({-1, 0, 1}, MaxBins - 1)

TableLayouts ==
    {t \in SeqsUpTo(ChrLayouts, 2) :
        /\ t /= <<>>
        /\ SumTo([c \in 1..Len(t) |-> Len(t[c]) + 1], Len(t)) <= MaxBins}

RECURSIVE BinStart(_, _)
\* START of the i-th bin of a chromosome laid out as l; its END is START + 2
BinStart(l, i) == IF i = 1 THEN 0 ELSE BinStart(l, i - 1) + 2 + l[i - 1]

Samples == {1, 2}

\* the rows of the bins of chromosome c of a table laid out as t
ChrRows(t, c) ==
    {[chr |-> c, start |-> BinStart(t[c], i), end |-> BinStart(t[c], i) + 2,
      sample |-> s, alpha |-> 1, beta |-> 2, cluster |-> 0] :
        i \in 1..(Len(t[c]) + 1), s \in Samples}

LayoutRows(t) == UNION {ChrRows(t, c) : c \in 1..Len(t)}

RECURSIVE FileOrder(_)
\* the rows as the file lists them: the reverse of the order main works in
FileOrder(S) ==
    IF S = {} THEN <<>>
    ELSE LET m == CHOOSE x \in S : \A y \in S : ByChrStartSample(x) >= ByChrStartSample(y)
         IN  <<m>> \o FileOrder(S \ {m})

BinTables == {FileOrder(LayoutRows(t)) : t \in TableLayouts}

\* args['minK'] and args['maxK'] are read only when exactK is not given
ArgSets ==
    {a \in [exactK : 0..MaxK, minK : 1..MaxK, maxK : 1..MaxK,
            tau : {<<Rat(0, 1), Rat(100000, 1)>>}, transmat : {"diag"},
            decoding : {"viterbi"}, diploidbaf : {Rat(5, 100)}] :
        a.exactK > 0 => (a.minK = 1 /\ a.maxK = 1)}

Init ==
    /\ pc = "read_bb"
    /\ err = "none"
    /\ calls = {}
    /\ args \in ArgSets
    /\ bb \in BinTables
    /\ sample_labels = <<>>
    /\ chr_labels = <<>>
    /\ labels = <<>>
    /\ segments = <<>>
    /\ IdleSelect
    /\ IdleDiag

Next ==
    \/ ReadBB
    \/ MainArgs
    \/ SelectEnter
    \/ SelectIter
    \/ SelectReturn
    \/ MainAssign
    \/ MainCheck
    \/ MainOutput
    \/ FormSeg

Spec == Init /\ [][Next]_vars

\* the bins of chromosome ch in START order and the number of gaps between them,
\* read off the bin table
BinsOf(ch) == SortedPositions({Pos(r) : r \in {x \in RowSet(bb) : x.chr = ch}})
NGaps(ch) ==
    LET b == BinsOf(ch) IN Cardinality({i \in 1..(Len(b) - 1) : b[i + 1][2] > b[i][3]})
HasOverlap == \E r, q \in RowSet(bb) : r.chr = q.chr /\ r.start < q.start /\ q.start < r.end
ChromSet == {r.chr : r \in RowSet(bb)}
FailedInReadBB == pc = "failed" /\ \A c \in calls : c[1] = "read_bb"
ReadBBReturned == pc /= "read_bb" /\ ~FailedInReadBB

\* main has assigned the CLUSTER column
Assigned == \E i \in 1..Len(bb) : bb[i].cluster > 0

\* C2: with exactK = 1 main never calls hmm_model_select, builds or fits no model and
\* computes no silhouette score; it gives every bin the same label, one per genomic
\* position repeated for every sample, and it fails to reach the output step only on
\* a table read_bb or the consistency assertions reject (more than one gap in a
\* chromosome, overlapping bins).
TrivialShortcut ==
    args.exactK = 1 =>
        /\ \A c \in calls : c[1] \notin {"hmm_model_select", "make_transmat", "fit",
                                         "decode", "silhouette_score"}
        /\ rs = <<>>
        /\ best_model = NoModel
        /\ pc \notin {"select_enter", "select_loop", "select_returned"}
        /\ Assigned =>
              /\ \A i \in 1..Len(bb) : bb[i].cluster = 1
              /\ Len(best_labels) = Cardinality({Pos(r) : r \in RowSet(bb)})
              /\ Len(bb) = Len(best_labels) * Cardinality(Samples)
        /\ pc = "failed" => ((\E ch \in ChromSet : NGaps(ch) > 1) \/ HasOverlap)

\* C2 witness: exactK = 1 at the output step, on a table of two chromosomes
TrivialWitness ==
    /\ args.exactK = 1
    /\ pc = "main_output"
    /\ Cardinality(ChromSet) = 2
    /\ Len(bb) = 2 * MaxBins
    /\ \A i \in 1..Len(bb) : bb[i].cluster = 1

\* C6: a chromosome with exactly one gap yields exactly two sequences, '_p' then
\* '_q', split at the gap, in START order, their bin counts summing to the
\* chromosome's; a chromosome without a gap yields one '_p' sequence with all its
\* bins; a chromosome with more than one gap is a fatal error and no sequences.
ArmSplitProperty ==
    /\ (pc /= "read_bb" /\ \E ch \in ChromSet : NGaps(ch) > 1) =>
          (FailedInReadBB /\ err = "AssertionError" /\ tracks = <<>>)
    /\ FailedInReadBB => \E ch \in ChromSet : NGaps(ch) > 1
    /\ ReadBBReturned =>
          /\ Len(chr_labels) = Len(tracks)
          /\ \A ch \in ChromSet :
                LET ks == {k \in 1..Len(tracks) : chr_labels[k][1] = ch}
                    b == BinsOf(ch)
                IN  \E k \in ks :
                      /\ chr_labels[k] = <<ch, "p">>
                      /\ IF NGaps(ch) = 0
                         THEN ks = {k} /\ tracks[k].cols = b
                         ELSE /\ ks = {k, k + 1}
                              /\ chr_labels[k + 1] = <<ch, "q">>
                              /\ tracks[k].cols \o tracks[k + 1].cols = b
                              /\ Len(tracks[k].cols) + Len(tracks[k + 1].cols) = Len(b)
                              /\ Len(tracks[k].cols) > 0
                              /\ Len(tracks[k + 1].cols) > 0
                              /\ b[Len(tracks[k].cols) + 1][2] > b[Len(tracks[k].cols)][3]

\* C6 witness: read_bb has returned three sequences for two chromosomes, one of them
\* split at its gap
ArmSplitWitness ==
    /\ pc = "main_args"
    /\ Len(tracks) = 3
    /\ \E ch \in ChromSet : NGaps(ch) = 1

\* C9: once the CLUSTER column is assigned, the i-th label is attached to the i-th
\* genomic position in the order the sequences were built, for every sample, so a
\* position carries the same label in all samples.
LabelsFollowPositions ==
    Assigned =>
        LET order == ConcatCols(tracks)
        IN  /\ Len(order) = Len(best_labels)
            /\ \A k, m \in 1..Len(order) :
                  (best_labels[k] = best_labels[m]) <=> (labels[k] = labels[m])
            /\ \A i \in 1..Len(bb) : \E k \in 1..Len(order) :
                  Pos(bb[i]) = order[k] /\ bb[i].cluster = best_labels[k]
            /\ \A i, j \in 1..Len(bb) : Pos(bb[i]) = Pos(bb[j]) => bb[i].cluster = bb[j].cluster
            /\ \A k \in 1..(Len(order) - 1) : ByPos(order[k]) < ByPos(order[k + 1])

\* C9 witness: main is done with a table of two chromosomes whose bins carry
\* different labels
LabelsWitness ==
    /\ pc = "done"
    /\ Len(tracks) >= 2
    /\ Len(bb) = 2 * MaxBins
    /\ \E i, j \in 1..Len(bb) : bb[i].cluster /= bb[j].cluster

\* C10: with no exactK and minK <= 1 the sweep skips K = 1: make_transmat is not
\* called and no model is built for a K below 2, and the sweep raises no error.
SweepIgnoresKOne ==
    (args.exactK = 0 /\ args.minK <= 1) =>
        /\ \A c \in calls : c[1] \in {"make_transmat", "fit"} => c[2] >= 2
        /\ err /= "ZeroDivisionError"

====
